---- MODULE Spec2Model ----
(***************************************************************************)
(* Model of scripts/create_lance_dataset.py: process_h5_patches, the       *)
(* ingestion of whole-slide-image patches into a LanceDB table.            *)
(*                                                                         *)
(* One behaviour is a run of the script (the __main__ block, with         *)
(* process_h5_patches and load_from_lance) and, after it has ended, a      *)
(* second run with the same arguments over the same directories and the    *)
(* same database.  The arguments, the directories, the slide files and the *)
(* faults the external libraries raise are inputs chosen in Init; the      *)
(* table persists from the first run to the second.                        *)
(*                                                                         *)
(* File names are sequences of tokens: an optional stem without dot, then  *)
(* tokens that start with a dot.  <<"a", ".h5">> is "a.h5", <<".", ".h5">> *)
(* is "..h5", <<"a", ".">> is "a.".                                        *)
(***************************************************************************)
EXTENDS Integers, Sequences, FiniteSets, TLC

\* ------------------------------------------------------------------------
\* Bounds of the model
\* ------------------------------------------------------------------------
MaxPatches == 1001
SmallPatches == 2

\* ------------------------------------------------------------------------
\* Program constants
\* ------------------------------------------------------------------------
batch_size == 1000
default_patch_level == 0
default_patch_size == 256

NoAttr == -1
NoFault == "none"

\* the table_name argument
table_name == "wsi_patches"

\* one printed line: what it says and what it names
Line(kind, arg) == [kind |-> kind, arg |-> arg]

VARIABLES
    args,         \* the command line: do the two directories exist, --verify
    h5_dir,       \* os.listdir(h5_dir): sequence of file names, in enumeration order
    slide,        \* slide id -> what is on disk for it and which call raises
    tableExists,  \* the table <table_name> exists in the database
    table,        \* its rows, in insertion order
    second,       \* this is the second run of the script
    firstMode,    \* how the first run got its table handle ("none" while it runs)
    prevTable,    \* the rows of the table when the first run ended
    pc,           \* position in the script
    raised,       \* the exception in flight or that ended the run ("none" if none)
    createErr,    \* why db.create_table raised ("none" if it did not)
    tableMode,    \* "created" | "opened" | "none": how this run got its table handle
    h5_files,     \* the filtered listing
    i,            \* 1-based position of the for loop in h5_files
    visited,      \* the files the for loop has taken so far, in order
    openWsi,      \* ids of the slides whose OpenSlide handle is open
    h5Open,       \* the h5py.File of the with block is open
    patch_level, patch_size, num_patches,
    batch_start,
    batch_data,
    nreads,       \* slide id -> number of wsi.read_region calls of this run
    nadds,        \* slide id -> number of table.add calls of this run
    stdout        \* the lines this run has printed, in order

inputs == <<args, h5_dir, slide>>
store == <<tableExists, table>>
history == <<second, firstMode, prevTable>>
locals == <<h5_files, i, visited, h5Open, patch_level, patch_size, num_patches,
            batch_start, batch_data>>
vars == <<args, h5_dir, slide, tableExists, table, second, firstMode, prevTable, pc, raised,
          createErr, tableMode, h5_files, i, visited, openWsi, h5Open, patch_level,
          patch_size, num_patches, batch_start, batch_data, nreads, nadds, stdout>>

\* ------------------------------------------------------------------------
\* Pure helpers
\* ------------------------------------------------------------------------
Min(a, b) == IF a < b THEN a ELSE b

\* f.endswith('.h5')
EndsWithH5(f) == Len(f) > 0 /\ f[Len(f)] = ".h5"

\* the tokens that start with a dot
DotTokens == {".", ".h5", ".txt", ".tif"}

\* os.path.splitext(h5_filename)[0]: the text before the last dot, when a
\* character other than a dot stands before that dot; the whole name when the
\* name has no dot or only leading dots before its last dot
SplitextRoot(f) ==
    IF /\ Len(f) > 1
       /\ f[Len(f)] \in DotTokens
       /\ \E k \in 1..(Len(f) - 1) : f[k] # "."
    THEN SubSeq(f, 1, Len(f) - 1)
    ELSE f

WsiIdOf(h5_filename) == SplitextRoot(h5_filename)

find_wsi_file(wsi_id) == wsi_id \o <<".tif">>

\* os.path.exists(wsi_path) against the slide directory given by the input
PathExists(path) ==
    \E s \in DOMAIN slide : slide[s].hasWsi /\ path = s \o <<".tif">>

\* [f for f in os.listdir(h5_dir) if f.endswith('.h5')]
FilterH5(listing) == SelectSeq(listing, EndsWithH5)

\* coords[idx] of the slide's coordinate file (Nx2 integers)
GridWidth == 4
CoordOf(wsi_id, idx) == <<(idx % GridWidth) * 256, (idx \div GridWidth) * 256>>

\* wsi.read_region(...).convert('RGB') saved as JPEG
read_region(wsi_id, coord, level, size) ==
    [mode |-> "RGB", from |-> wsi_id, at |-> coord, level |-> level, size |-> size]
EncodeJpeg(img) == [format |-> "JPEG", of |-> <<img.from, img.at, img.level, img.size>>]

\* mutant of MakeRecord: the coordinate is looked up by the position in the
\* window, the index stays the position in the slide
MakeRecordBatchCoord(wsi_id, idx, level, size) ==
    LET coord_tuple == CoordOf(wsi_id, idx % batch_size)
    IN  [wsi_id |-> wsi_id,
         patch_idx |-> idx,
         coord_x |-> coord_tuple[1],
         coord_y |-> coord_tuple[2],
         image |-> EncodeJpeg(read_region(wsi_id, coord_tuple, level, size))]

MakeRecord(wsi_id, idx, level, size) ==
    LET coord_tuple == CoordOf(wsi_id, idx)
    IN  [wsi_id |-> wsi_id,
         patch_idx |-> idx,
         coord_x |-> coord_tuple[1],
         coord_y |-> coord_tuple[2],
         image |-> EncodeJpeg(read_region(wsi_id, coord_tuple, level, size))]

\* mutant of BuildRecords: the records of the window are collected last first
BuildRecordsReversed(wsi_id, lo, hi, level, size) ==
    [j \in 1..(hi - lo) |-> MakeRecord(wsi_id, hi - j, level, size)]

\* the records of for idx in range(lo, hi)
BuildRecords(wsi_id, lo, hi, level, size) ==
    [j \in 1..(hi - lo) |-> MakeRecord(wsi_id, lo + j - 1, level, size)]

\* mutant of BatchEnd: the window end is not clamped to the number of patches
BatchEndNoClamp(start, n) == start + batch_size

\* min(batch_start + batch_size, num_patches)
BatchEnd(start, n) == Min(start + batch_size, n)

\* the attribute if the coordinate dataset carries it, the default otherwise
\* mutant of LevelOf: without the attribute the level of the slide before stays
LevelOfCarry(c) == IF c.level # NoAttr THEN c.level ELSE patch_level

LevelOf(c) == IF c.level # NoAttr THEN c.level ELSE default_patch_level
SizeOf(c) == IF c.size # NoAttr THEN c.size ELSE default_patch_size

\* ------------------------------------------------------------------------
\* Inputs
\* ------------------------------------------------------------------------
H5A == <<"a", ".h5">>
H5B == <<"b", ".h5">>
H5Dots == <<".", ".h5">>
Notes == <<"notes", ".txt">>
\* the listings the script is run on with --verify
VerifiedListings == {<<H5A, Notes>>}
Listings == {<< >>, <<Notes>>, <<H5Dots>>, <<H5A, Notes>>, <<H5A, H5B>>, <<H5B, Notes, H5A>>}

Cfg(hasWsi, hasCoords, num, level, size, fault, at) ==
    [hasWsi |-> hasWsi, hasCoords |-> hasCoords, num |-> num, level |-> level,
     size |-> size, fault |-> fault, at |-> at]
Ok(num, level, size) == Cfg(TRUE, TRUE, num, level, size, NoFault, 0)
Broken(hasWsi, hasCoords, fault) == Cfg(hasWsi, hasCoords, 0, NoAttr, NoAttr, fault, 0)
Faulty(num, fault, at) == Cfg(TRUE, TRUE, num, NoAttr, NoAttr, fault, at)

PatchCounts == {0, 1, batch_size, MaxPatches}
FailPoints(n) == {0, batch_size - 1, batch_size, n - 1} \cap (0..(n - 1))
Windows(n) == 0..((n - 1) \div batch_size)

BigConfigs ==
    {Broken(FALSE, FALSE, NoFault), Broken(TRUE, FALSE, NoFault),
     Broken(TRUE, TRUE, "OpenSlide"), Broken(TRUE, TRUE, "h5py.File")}
    \cup {Ok(n, NoAttr, NoAttr) : n \in PatchCounts}
    \cup {Ok(1, l, s) : l \in {NoAttr, 1}, s \in {NoAttr, 512}}
    \cup UNION {{Faulty(n, "read_region", k) : k \in FailPoints(n)} : n \in PatchCounts}
    \cup {Faulty(MaxPatches, "save", k) : k \in {batch_size} \cap (0..(MaxPatches - 1))}
    \cup UNION {{Faulty(n, "add", w) : w \in Windows(n)} : n \in {1, MaxPatches}}

SmallConfigs ==
    {Broken(FALSE, FALSE, NoFault), Broken(TRUE, FALSE, NoFault),
     Broken(TRUE, TRUE, "h5py.File"),
     Ok(SmallPatches, 1, NoAttr),
     Faulty(SmallPatches, "read_region", SmallPatches - 1)}

ConfigsOf(wsi_id) == IF wsi_id = <<"a">> THEN BigConfigs ELSE SmallConfigs

\* rows a previous user of the database left in a table of the same name
StaleRows == <<MakeRecord(<<"a">>, 0, 3, 64)>>

\* ------------------------------------------------------------------------
\* Initial state
\* ------------------------------------------------------------------------
Init ==
    /\ args \in [h5_isdir : BOOLEAN, wsi_isdir : BOOLEAN, verify : BOOLEAN]
    /\ h5_dir \in Listings
    /\ ~args.h5_isdir => h5_dir = << >>
    /\ args.verify => h5_dir \in VerifiedListings
    /\ LET ids == {WsiIdOf(h5_dir[k]) : k \in {k \in 1..Len(h5_dir) : EndsWithH5(h5_dir[k])}}
       IN  \E f \in [ids -> BigConfigs \cup SmallConfigs] :
               /\ \A s \in ids : f[s] \in ConfigsOf(s)
               /\ slide = f
    /\ ~args.wsi_isdir => \A s \in DOMAIN slide : ~slide[s].hasWsi
    /\ tableExists \in BOOLEAN
    /\ table = IF tableExists THEN StaleRows ELSE << >>
    /\ second = FALSE
    /\ firstMode = "none"
    /\ prevTable = << >>
    /\ pc = "main"
    /\ raised = "none"
    /\ createErr = "none"
    /\ tableMode = "none"
    /\ h5_files = << >>
    /\ i = 1
    /\ visited = << >>
    /\ openWsi = {}
    /\ h5Open = FALSE
    /\ patch_level = NoAttr
    /\ patch_size = NoAttr
    /\ num_patches = 0
    /\ batch_start = 0
    /\ batch_data = << >>
    /\ nreads = [s \in DOMAIN slide |-> 0]
    /\ nadds = [s \in DOMAIN slide |-> 0]
    /\ stdout = << >>

\* ------------------------------------------------------------------------
\* __main__, up to the call of process_h5_patches
\* ------------------------------------------------------------------------
\* lines 208-217: both directories exist, process_h5_patches is called
CheckDirs ==
    /\ pc = "main"
    /\ args.h5_isdir
    /\ args.wsi_isdir
    /\ pc' = "start"
    /\ UNCHANGED <<inputs, nadds, stdout, store, history, raised, createErr, tableMode,
                   locals, openWsi, nreads>>

\* lines 208-210: the coordinate directory does not exist, exit(1)
H5DirMissing ==
    /\ pc = "main"
    /\ ~args.h5_isdir
    /\ stdout' = Append(stdout, Line("error_no_dir", "h5_dir"))
    /\ pc' = "exit1"
    /\ UNCHANGED <<inputs, nadds, store, history, raised, createErr, tableMode, locals,
                   openWsi, nreads>>

\* lines 212-214: the slide directory does not exist, exit(1)
WsiDirMissing ==
    /\ pc = "main"
    /\ args.h5_isdir
    /\ ~args.wsi_isdir
    /\ stdout' = Append(stdout, Line("error_no_dir", "wsi_dir"))
    /\ pc' = "exit1"
    /\ UNCHANGED <<inputs, nadds, store, history, raised, createErr, tableMode, locals,
                   openWsi, nreads>>

\* ------------------------------------------------------------------------
\* process_h5_patches, up to the table handle
\* ------------------------------------------------------------------------
\* lines 32-37: the listing holds at least one .h5 file
ListFiles ==
    /\ pc = "start"
    /\ FilterH5(h5_dir) # << >>
    /\ h5_files' = FilterH5(h5_dir)
    /\ pc' = "connect"
    /\ stdout' = Append(stdout, Line("found", Len(FilterH5(h5_dir))))
    /\ UNCHANGED <<inputs, nadds, store, history, raised, createErr, tableMode, i, visited,
                   openWsi, h5Open, patch_level, patch_size, num_patches, batch_start,
                   batch_data, nreads>>

\* lines 32-35: no .h5 file, ValueError leaves the function
NoH5Files ==
    /\ pc = "start"
    /\ FilterH5(h5_dir) = << >>
    /\ h5_files' = FilterH5(h5_dir)
    /\ raised' = "ValueError"
    /\ pc' = "aborted"
    /\ UNCHANGED <<inputs, nadds, stdout, store, history, createErr, tableMode, i, visited,
                   openWsi, h5Open, patch_level, patch_size, num_patches, batch_start,
                   batch_data, nreads>>

\* line 32: os.listdir raises (the directory cannot be read)
ListdirRaises ==
    /\ pc = "start"
    /\ raised' = "listdir"
    /\ pc' = "aborted"
    /\ UNCHANGED <<inputs, nadds, stdout, store, history, createErr, tableMode, locals, openWsi, nreads>>

\* line 40
Connect ==
    /\ pc = "connect"
    /\ pc' = "create"
    /\ UNCHANGED <<inputs, nadds, stdout, store, history, raised, createErr, tableMode, locals,
                   openWsi, nreads>>

\* line 40: lancedb.connect raises, nothing catches it
ConnectRaises ==
    /\ pc = "connect"
    /\ raised' = "connect"
    /\ pc' = "aborted"
    /\ UNCHANGED <<inputs, nadds, stdout, store, history, createErr, tableMode, locals, openWsi, nreads>>

\* mutant of CreatedRows: the table is created without overwrite, old rows stay
CreatedRowsKeep(old) == old

\* the rows of a table just made by create_table(..., mode='overwrite')
CreatedRows(old) == << >>

\* lines 52-54: db.create_table(table_name, schema=schema, mode='overwrite')
CreateTable ==
    /\ pc = "create"
    /\ tableExists' = TRUE
    /\ table' = CreatedRows(table)
    /\ tableMode' = "created"
    /\ pc' = "loop"
    /\ stdout' = Append(stdout, Line("created", table_name))
    /\ UNCHANGED <<inputs, nadds, history, raised, createErr, locals, openWsi, nreads>>

\* lines 52-56: db.create_table raises, for whatever reason; except Exception
\* takes every reason alike and prints the exception
CreateTableRaises ==
    /\ pc = "create"
    /\ \E why \in {"conflict", "other"} :
           /\ why = "conflict" => tableExists
           /\ createErr' = why
           /\ stdout' = Append(stdout, Line("fallback", why))
    /\ pc' = "fallback"
    /\ UNCHANGED <<inputs, nadds, store, history, raised, tableMode, locals, openWsi, nreads>>

\* line 57: db.open_table(table_name) finds the table
OpenTable ==
    /\ pc = "fallback"
    /\ tableExists
    /\ tableMode' = "opened"
    /\ createErr' = "none"
    /\ pc' = "loop"
    /\ UNCHANGED <<inputs, nadds, stdout, store, history, raised, locals, openWsi, nreads>>

\* line 57: db.open_table raises inside the handler, nothing catches it
OpenTableRaises ==
    /\ pc = "fallback"
    /\ ~tableExists
    /\ raised' = "open_table"
    /\ createErr' = "none"
    /\ pc' = "aborted"
    /\ UNCHANGED <<inputs, nadds, stdout, store, history, tableMode, locals, openWsi, nreads>>

\* ------------------------------------------------------------------------
\* The loop over the coordinate files (lines 60-139)
\* ------------------------------------------------------------------------
h5_filename == h5_files[i]
wsi_id == WsiIdOf(h5_filename)
InLoop == pc = "loop" /\ i <= Len(h5_files)

\* mutant of SkipMissingSlide: the continue of line 70 is missing, the try block
\* is entered for a slide without slide file
SkipMissingSlideFallsThrough ==
    /\ InLoop
    /\ ~PathExists(find_wsi_file(wsi_id))
    /\ visited' = Append(visited, h5_filename)
    /\ pc' = "open_wsi"
    /\ stdout' = Append(stdout, Line("warning_no_slide", wsi_id))
    /\ UNCHANGED <<inputs, nadds, store, history, raised, createErr, tableMode, h5_files, i,
                   openWsi, h5Open, patch_level, patch_size, num_patches, batch_start,
                   batch_data, nreads>>

\* lines 60-70: the slide file is missing, warn and continue
SkipMissingSlide ==
    /\ InLoop
    /\ ~PathExists(find_wsi_file(wsi_id))
    /\ visited' = Append(visited, h5_filename)
    /\ i' = i + 1
    /\ stdout' = Append(stdout, Line("warning_no_slide", wsi_id))
    /\ UNCHANGED <<inputs, nadds, store, history, pc, raised, createErr, tableMode, h5_files,
                   openWsi, h5Open, patch_level, patch_size, num_patches, batch_start,
                   batch_data, nreads>>

\* lines 60-72: the slide file exists, enter the try block
EnterSlide ==
    /\ InLoop
    /\ PathExists(find_wsi_file(wsi_id))
    /\ visited' = Append(visited, h5_filename)
    /\ pc' = "open_wsi"
    /\ UNCHANGED <<inputs, nadds, stdout, store, history, raised, createErr, tableMode, h5_files, i,
                   openWsi, h5Open, patch_level, patch_size, num_patches, batch_start,
                   batch_data, nreads>>

\* line 74: wsi = openslide.OpenSlide(wsi_path)
OpenSlide ==
    /\ pc = "open_wsi"
    /\ slide[wsi_id].fault # "OpenSlide"
    /\ openWsi' = openWsi \cup {wsi_id}
    /\ pc' = "open_h5"
    /\ UNCHANGED <<inputs, nadds, stdout, store, history, raised, createErr, tableMode, locals, nreads>>

\* line 74: OpenSlide raises, no handle exists
OpenSlideRaises ==
    /\ pc = "open_wsi"
    /\ slide[wsi_id].fault = "OpenSlide"
    /\ raised' = "OpenSlide"
    /\ pc' = "except"
    /\ UNCHANGED <<inputs, nadds, stdout, store, history, createErr, tableMode, locals, openWsi, nreads>>

\* line 77: with h5py.File(h5_path, 'r') as hdf5_file
OpenH5 ==
    /\ pc = "open_h5"
    /\ slide[wsi_id].fault # "h5py.File"
    /\ h5Open' = TRUE
    /\ pc' = "read_h5"
    /\ UNCHANGED <<inputs, nadds, stdout, store, history, raised, createErr, tableMode, h5_files, i,
                   visited, openWsi, patch_level, patch_size, num_patches, batch_start,
                   batch_data, nreads>>

\* line 77: h5py.File raises; the slide handle of line 74 stays as it is
OpenH5Raises ==
    /\ pc = "open_h5"
    /\ slide[wsi_id].fault = "h5py.File"
    /\ raised' = "h5py.File"
    /\ pc' = "except"
    /\ UNCHANGED <<inputs, nadds, stdout, store, history, createErr, tableMode, locals, openWsi, nreads>>

\* mutant of MissingCoords: the wsi.close() of line 80 is missing
MissingCoordsLeak ==
    /\ pc = "read_h5"
    /\ ~slide[wsi_id].hasCoords
    /\ h5Open' = FALSE
    /\ i' = i + 1
    /\ pc' = "loop"
    /\ stdout' = Append(stdout, Line("warning_no_coords", h5_filename))
    /\ UNCHANGED <<inputs, nadds, store, history, raised, createErr, tableMode, h5_files,
                   visited, openWsi, patch_level, patch_size, num_patches, batch_start,
                   batch_data, nreads>>

\* lines 78-81: no 'coords' dataset: warn, wsi.close(), continue (the with
\* block closes the coordinate file)
MissingCoords ==
    /\ pc = "read_h5"
    /\ ~slide[wsi_id].hasCoords
    /\ openWsi' = openWsi \ {wsi_id}
    /\ h5Open' = FALSE
    /\ i' = i + 1
    /\ pc' = "loop"
    /\ stdout' = Append(stdout, Line("warning_no_coords", h5_filename))
    /\ UNCHANGED <<inputs, nadds, store, history, raised, createErr, tableMode, h5_files,
                   visited, patch_level, patch_size, num_patches, batch_start,
                   batch_data, nreads>>

\* mutant of ReadCoords: the slide handle is closed once the metadata is read
ReadCoordsClosesSlide ==
    /\ pc = "read_h5"
    /\ slide[wsi_id].hasCoords
    /\ patch_level' = LevelOf(slide[wsi_id])
    /\ patch_size' = SizeOf(slide[wsi_id])
    /\ num_patches' = slide[wsi_id].num
    /\ batch_start' = 0
    /\ openWsi' = openWsi \ {wsi_id}
    /\ pc' = "window"
    /\ stdout' = Append(stdout, Line("processing", <<wsi_id, slide[wsi_id].num, LevelOf(slide[wsi_id]), SizeOf(slide[wsi_id])>>))
    /\ UNCHANGED <<inputs, nadds, store, history, raised, createErr, tableMode, h5_files, i,
                   visited, h5Open, batch_data, nreads>>

\* lines 83-101: the metadata of the coordinate set; batch_start holds the next
\* value of range(0, num_patches, batch_size)
ReadCoords ==
    /\ pc = "read_h5"
    /\ slide[wsi_id].hasCoords
    /\ patch_level' = LevelOf(slide[wsi_id])
    /\ patch_size' = SizeOf(slide[wsi_id])
    /\ num_patches' = slide[wsi_id].num
    /\ batch_start' = 0
    /\ pc' = "window"
    /\ stdout' = Append(stdout, Line("processing", <<wsi_id, slide[wsi_id].num, LevelOf(slide[wsi_id]), SizeOf(slide[wsi_id])>>))
    /\ UNCHANGED <<inputs, nadds, store, history, raised, createErr, tableMode, h5_files, i,
                   visited, openWsi, h5Open, batch_data, nreads>>

\* the coordinate of the window [lo, hi) at which read_region or save raises
FaultIn(c, lo, hi) ==
    /\ c.fault \in {"read_region", "save"}
    /\ c.at >= lo
    /\ c.at < hi

\* mutant of BuildWindow: the range of the windows ends one past num_patches,
\* which gives a window without coordinates when batch_size divides num_patches
BuildWindowInclusive ==
    /\ pc = "window"
    /\ batch_start <= num_patches
    /\ LET batch_end == BatchEnd(batch_start, num_patches)
       IN  /\ ~FaultIn(slide[wsi_id], batch_start, batch_end)
           /\ batch_data' = BuildRecords(wsi_id, batch_start, batch_end,
                                         patch_level, patch_size)
           /\ nreads' = [nreads EXCEPT ![wsi_id] = @ + (batch_end - batch_start)]
    /\ pc' = "add"
    /\ UNCHANGED <<inputs, nadds, stdout, store, history, raised, createErr, tableMode,
                   h5_files, i, visited, openWsi, h5Open, patch_level, patch_size,
                   num_patches, batch_start>>

\* lines 101-128: one window, every coordinate extracted and encoded
BuildWindow ==
    /\ pc = "window"
    /\ batch_start < num_patches
    /\ LET batch_end == BatchEnd(batch_start, num_patches)
       IN  /\ ~FaultIn(slide[wsi_id], batch_start, batch_end)
           /\ batch_data' = BuildRecords(wsi_id, batch_start, batch_end,
                                         patch_level, patch_size)
           /\ nreads' = [nreads EXCEPT ![wsi_id] = @ + (batch_end - batch_start)]
    /\ pc' = "add"
    /\ UNCHANGED <<inputs, nadds, stdout, store, history, raised, createErr, tableMode, h5_files, i,
                   visited, openWsi, h5Open, patch_level, patch_size, num_patches,
                   batch_start>>

\* mutant of BuildWindowRaises: the records built before the failure are
\* flushed to the table on the way out
BuildWindowRaisesFlush ==
    /\ pc = "window"
    /\ batch_start < num_patches
    /\ FaultIn(slide[wsi_id], batch_start, BatchEnd(batch_start, num_patches))
    /\ batch_data' = BuildRecords(wsi_id, batch_start, slide[wsi_id].at,
                                  patch_level, patch_size)
    /\ table' = table \o batch_data'
    /\ nreads' = [nreads EXCEPT ![wsi_id] = @ + (slide[wsi_id].at - batch_start + 1)]
    /\ raised' = slide[wsi_id].fault
    /\ h5Open' = FALSE
    /\ pc' = "except"
    /\ UNCHANGED <<inputs, nadds, stdout, tableExists, history, createErr, tableMode,
                   h5_files, i, visited, openWsi, patch_level, patch_size, num_patches,
                   batch_start>>

\* lines 107-119: read_region or save raises at a coordinate of the window; the
\* records built before it stay in batch_data, the with block closes the file
BuildWindowRaises ==
    /\ pc = "window"
    /\ batch_start < num_patches
    /\ FaultIn(slide[wsi_id], batch_start, BatchEnd(batch_start, num_patches))
    /\ batch_data' = BuildRecords(wsi_id, batch_start, slide[wsi_id].at,
                                  patch_level, patch_size)
    /\ nreads' = [nreads EXCEPT ![wsi_id] = @ + (slide[wsi_id].at - batch_start + 1)]
    /\ raised' = slide[wsi_id].fault
    /\ h5Open' = FALSE
    /\ pc' = "except"
    /\ UNCHANGED <<inputs, nadds, stdout, store, history, createErr, tableMode, h5_files, i,
                   visited, openWsi, patch_level, patch_size, num_patches, batch_start>>

\* mutant of AddRows: table.add(batch_data, mode='overwrite')
AddRowsOverwrite(rows, batch) == batch

\* mutant of AddRows: the append is sent twice
AddRowsTwice(rows, batch) == rows \o batch \o batch

\* mutant of AddRows: the append replaces the rows that have a key of the batch
AddRowsUpsert(rows, batch) ==
    SelectSeq(rows, LAMBDA r : ~\E j \in 1..Len(batch) :
                                   /\ batch[j].wsi_id = r.wsi_id
                                   /\ batch[j].patch_idx = r.patch_idx)
    \o batch

\* table.add(batch_data): the rows of the table after the append
AddRows(rows, batch) == rows \o batch

\* lines 130-131, then the next value of the range
AddBatch ==
    /\ pc = "add"
    /\ ~(slide[wsi_id].fault = "add" /\ slide[wsi_id].at = batch_start \div batch_size)
    /\ table' = AddRows(table, batch_data)
    /\ batch_start' = batch_start + batch_size
    /\ pc' = "window"
    /\ nadds' = [nadds EXCEPT ![wsi_id] = @ + 1]
    /\ UNCHANGED <<inputs, stdout, tableExists, history, raised, createErr, tableMode, h5_files,
                   i, visited, openWsi, h5Open, patch_level, patch_size, num_patches,
                   batch_data, nreads>>

\* line 131: table.add raises, nothing is appended
AddBatchRaises ==
    /\ pc = "add"
    /\ slide[wsi_id].fault = "add"
    /\ slide[wsi_id].at = batch_start \div batch_size
    /\ raised' = "add"
    /\ h5Open' = FALSE
    /\ pc' = "except"
    /\ nadds' = [nadds EXCEPT ![wsi_id] = @ + 1]
    /\ UNCHANGED <<inputs, stdout, store, history, createErr, tableMode, h5_files, i,
                   visited, openWsi, patch_level, patch_size, num_patches, batch_start,
                   batch_data, nreads>>

\* lines 101, 132-133: the range is exhausted, the with block ends, wsi.close()
CloseSlide ==
    /\ pc = "window"
    /\ batch_start >= num_patches
    /\ h5Open' = FALSE
    /\ openWsi' = openWsi \ {wsi_id}
    /\ i' = i + 1
    /\ pc' = "loop"
    /\ UNCHANGED <<inputs, nadds, stdout, store, history, raised, createErr, tableMode, h5_files,
                   visited, patch_level, patch_size, num_patches, batch_start,
                   batch_data, nreads>>

\* mutant of HandleException: the handler raises again instead of continuing
HandleExceptionReraise ==
    /\ pc = "except"
    /\ pc' = "aborted"
    /\ stdout' = Append(stdout, Line("error", h5_filename))
    /\ UNCHANGED <<inputs, nadds, store, history, raised, createErr, tableMode, locals,
                   openWsi, nreads>>

\* mutant of HandleException: the handler removes the rows of the failed slide
HandleExceptionRollback ==
    /\ pc = "except"
    /\ table' = SelectSeq(table, LAMBDA r : r.wsi_id # wsi_id)
    /\ raised' = "none"
    /\ i' = i + 1
    /\ pc' = "loop"
    /\ stdout' = Append(stdout, Line("error", h5_filename))
    /\ UNCHANGED <<inputs, nadds, tableExists, history, createErr, tableMode, h5_files, visited,
                   openWsi, h5Open, patch_level, patch_size, num_patches, batch_start,
                   batch_data, nreads>>

\* lines 135-139: except Exception: print, traceback, continue
HandleException ==
    /\ pc = "except"
    /\ raised' = "none"
    /\ i' = i + 1
    /\ pc' = "loop"
    /\ stdout' = Append(stdout, Line("error", h5_filename))
    /\ UNCHANGED <<inputs, nadds, store, history, createErr, tableMode, h5_files, visited,
                   openWsi, h5Open, patch_level, patch_size, num_patches, batch_start,
                   batch_data, nreads>>

\* line 141: the for loop is exhausted, the function returns
EndOfRun ==
    /\ pc = "loop"
    /\ i > Len(h5_files)
    /\ pc' = "done"
    /\ stdout' = Append(stdout, Line("success", table_name))
    /\ UNCHANGED <<inputs, nadds, store, history, raised, createErr, tableMode, locals,
                   openWsi, nreads>>

\* lines 218-219: process_h5_patches has returned, print("\nTime taken: ...")
TimeTaken ==
    /\ pc = "done"
    /\ stdout' = stdout \o <<Line("blank", ""), Line("time_taken", "seconds")>>
    /\ pc' = "timed"
    /\ UNCHANGED <<inputs, nadds, store, history, raised, createErr, tableMode, locals,
                   openWsi, nreads>>

\* line 221: without --verify the script ends here
NoVerify ==
    /\ pc = "timed"
    /\ ~args.verify
    /\ pc' = "exited"
    /\ UNCHANGED <<inputs, nadds, stdout, store, history, raised, createErr, tableMode,
                   locals, openWsi, nreads>>

\* lines 221-225: with --verify, the banner
Verify ==
    /\ pc = "timed"
    /\ args.verify
    /\ stdout' = stdout \o <<Line("blank", ""), Line("rule", 50),
                              Line("verification", ""), Line("rule", 50)>>
    /\ pc' = "verify"
    /\ UNCHANGED <<inputs, nadds, store, history, raised, createErr, tableMode, locals,
                   openWsi, nreads>>

\* table.head(limit) when a limit is given, the whole table otherwise
TableHead(rows, limit) ==
    IF limit # 0 THEN SubSeq(rows, 1, Min(limit, Len(rows))) ELSE rows

\* df.head(): the first five rows
DfHead(df) == SubSeq(df, 1, Min(5, Len(df)))

\* lines 144-169, called at line 226 with limit=10: the table is opened and
\* read, never written
load_from_lance ==
    /\ pc = "verify"
    /\ LET df == TableHead(table, 10)
       IN  stdout' = stdout \o <<Line("total", Len(table)), Line("loaded", Len(df)),
                                 Line("blank", ""), Line("sample_header", ""),
                                 Line("sample", DfHead(df))>>
    /\ pc' = "exited"
    /\ UNCHANGED <<inputs, nadds, store, history, raised, createErr, tableMode, locals,
                   openWsi, nreads>>

\* lines 172-226: the script has ended, at its last line or by exit(1), and is
\* started again with the same arguments on the same directories and the same
\* database; the process that ended took its handles and locals with it.  (A
\* run that an exception ended before the loop has left the table as it found
\* it: the start after it is a first run from another initial state.)
Rerun ==
    /\ pc \in {"exited", "exit1"}
    /\ ~second
    /\ second' = TRUE
    /\ firstMode' = tableMode
    /\ prevTable' = table
    /\ pc' = "main"
    /\ raised' = "none"
    /\ createErr' = "none"
    /\ tableMode' = "none"
    /\ h5_files' = << >>
    /\ i' = 1
    /\ visited' = << >>
    /\ openWsi' = {}
    /\ h5Open' = FALSE
    /\ patch_level' = NoAttr
    /\ patch_size' = NoAttr
    /\ num_patches' = 0
    /\ batch_start' = 0
    /\ batch_data' = << >>
    /\ nreads' = [s \in DOMAIN slide |-> 0]
    /\ nadds' = [s \in DOMAIN slide |-> 0]
    /\ stdout' = << >>
    /\ UNCHANGED <<inputs, store>>

Next ==
    \/ CheckDirs
    \/ H5DirMissing
    \/ WsiDirMissing
    \/ ListFiles
    \/ NoH5Files
    \/ ListdirRaises
    \/ Connect
    \/ ConnectRaises
    \/ CreateTable
    \/ CreateTableRaises
    \/ OpenTable
    \/ OpenTableRaises
    \/ SkipMissingSlide
    \/ EnterSlide
    \/ OpenSlide
    \/ OpenSlideRaises
    \/ OpenH5
    \/ OpenH5Raises
    \/ MissingCoords
    \/ ReadCoords
    \/ BuildWindow
    \/ BuildWindowRaises
    \/ AddBatch
    \/ AddBatchRaises
    \/ CloseSlide
    \/ HandleException
    \/ EndOfRun
    \/ TimeTaken
    \/ NoVerify
    \/ Verify
    \/ load_from_lance
    \/ Rerun

Spec == Init /\ [][Next]_vars

\* The interpreter runs the single thread of the script to its end: a step that
\* can be taken is taken.
LiveSpec == Spec /\ WF_vars(Next)

TypeOK ==
    /\ pc \in {"main", "exit1", "start", "connect", "create", "fallback", "loop",
               "open_wsi", "open_h5", "read_h5", "window", "add", "except", "done",
               "aborted", "timed", "verify", "exited"}
    /\ args \in [h5_isdir : BOOLEAN, wsi_isdir : BOOLEAN, verify : BOOLEAN]
    /\ second \in BOOLEAN
    /\ i \in 1..(Len(h5_files) + 1)
    /\ openWsi \subseteq DOMAIN slide

\* ------------------------------------------------------------------------
\* Vocabulary of the properties
\* ------------------------------------------------------------------------
RowsOf(rows, s) == SelectSeq(rows, LAMBDA r : r.wsi_id = s)
IdxOf(rows, s) ==
    LET own == RowsOf(rows, s)
    IN  [j \in 1..Len(own) |-> own[j].patch_idx]
Range(f) == {f[j] : j \in DOMAIN f}
Keys(rows) == {<<rows[j].wsi_id, rows[j].patch_idx>> : j \in 1..Len(rows)}

\* the slide's coordinate file has been left behind by the for loop of this run
Passed(s) == \E k \in 1..Len(h5_files) : WsiIdOf(h5_files[k]) = s /\ k < i
Healthy(s) == slide[s].hasWsi /\ slide[s].hasCoords /\ slide[s].fault = NoFault
ExtractFault(s) == slide[s].fault \in {"read_region", "save"}
RunEnded == pc = "done"

\* ------------------------------------------------------------------------
\* C1: after a run that created the table, every slide with a slide file, a
\* 'coords' dataset of N coordinates and no error has exactly N rows, whose
\* patch indices are 0..N-1, each once, whatever happened to the other slides.
\* ------------------------------------------------------------------------
C1_ExactRecords ==
    (RunEnded /\ tableMode = "created") =>
        \A s \in DOMAIN slide :
            Healthy(s) =>
                LET idx == IdxOf(table, s)
                IN  /\ Len(idx) = slide[s].num
                    /\ Range(idx) = 0..(slide[s].num - 1)

C1_Witness ==
    /\ RunEnded
    /\ tableMode = "created"
    /\ \E s, t \in DOMAIN slide :
           /\ Healthy(s)
           /\ slide[s].num = MaxPatches
           /\ Len(RowsOf(table, s)) = MaxPatches
           /\ ExtractFault(t)

\* ------------------------------------------------------------------------
\* C2: the slide handle is closed on every exit path of the slide's processing
\* before the next candidate is taken: at most one handle is open at any time,
\* none between two slides and none when the run ends.
\* ------------------------------------------------------------------------
C2_HandleClosed ==
    /\ Cardinality(openWsi) <= 1
    /\ pc \in {"loop", "done"} => openWsi = {}

\* ------------------------------------------------------------------------
\* C3: an exception of region extraction or encoding ends the slide: no
\* coordinate after the failing one is read, no appended row is removed, and
\* the loop goes on with the next file.
\* ------------------------------------------------------------------------
C3_NoReadAfterFault ==
    \A s \in DOMAIN slide :
        ExtractFault(s) =>
            /\ nreads[s] <= slide[s].at + 1
            /\ Passed(s) => nreads[s] = slide[s].at + 1

C3_FaultStep ==
    /\ (pc' = "except" /\ raised' \in {"read_region", "save"} /\ pc # "except") =>
           table' = table
    /\ (pc = "except" /\ raised \in {"read_region", "save"}) =>
           /\ table' = table
           /\ pc' = "loop"
           /\ i' = i + 1
           /\ h5_files' = h5_files

C3_ExtractionFaultContained == []C3_NoReadAfterFault /\ [][C3_FaultStep]_vars

C3_Witness ==
    /\ RunEnded
    /\ Len(h5_files) = 2
    /\ LET s == WsiIdOf(h5_files[1])
           t == WsiIdOf(h5_files[2])
       IN  /\ slide[s].fault = "read_region"
           /\ slide[s].at >= batch_size
           /\ Len(RowsOf(table, s)) >= batch_size
           /\ Healthy(t)
           /\ Len(RowsOf(table, t)) > 0

\* ------------------------------------------------------------------------
\* C4: a coordinate file without slide file is skipped without opening a slide
\* handle or a coordinate file; it adds no row, the table is the one the run
\* produces when the orphan coordinate files are absent, and the run goes on.
\* ------------------------------------------------------------------------
HasSlideFile(f) == slide[WsiIdOf(f)].hasWsi

\* the rows one slide adds in one run, from its inputs alone
KeptCount(c) ==
    IF ~c.hasWsi \/ ~c.hasCoords \/ c.fault \in {"OpenSlide", "h5py.File"} THEN 0
    ELSE IF c.fault = NoFault THEN c.num
    ELSE IF c.fault = "add" THEN batch_size * c.at
    ELSE batch_size * (c.at \div batch_size)
RowsFor(s) ==
    [j \in 1..KeptCount(slide[s]) |->
        MakeRecord(s, j - 1, LevelOf(slide[s]), SizeOf(slide[s]))]
RECURSIVE RunOver(_)
RunOver(files) ==
    IF files = << >> THEN << >>
    ELSE RowsFor(WsiIdOf(Head(files))) \o RunOver(Tail(files))

C4_OrphanAddsNothing ==
    (RunEnded /\ tableMode = "created") =>
        /\ table = RunOver(SelectSeq(h5_files, HasSlideFile))
        /\ \A s \in DOMAIN slide : ~slide[s].hasWsi => RowsOf(table, s) = << >>

C4_SkipStep ==
    (InLoop /\ ~slide[wsi_id].hasWsi) =>
        /\ openWsi' = openWsi
        /\ h5Open' = h5Open
        /\ table' = table
        /\ nreads' = nreads
        /\ pc' = "loop"
        /\ i' = i + 1

C4_MissingSlideSkipped == []C4_OrphanAddsNothing /\ [][C4_SkipStep]_vars

C4_Witness ==
    /\ RunEnded
    /\ tableMode = "created"
    /\ Len(h5_files) = 2
    /\ ~slide[WsiIdOf(h5_files[1])].hasWsi
    /\ Healthy(WsiIdOf(h5_files[2]))
    /\ Len(table) = slide[WsiIdOf(h5_files[2])].num
    /\ Len(table) > 0

\* ------------------------------------------------------------------------
\* C5: a coordinate file without 'coords' dataset: the slide handle opened for
\* it is closed, no region is read, no row is appended, the loop goes on.
\* ------------------------------------------------------------------------
C5_NoCoordsNoWork ==
    \A s \in DOMAIN slide :
        (slide[s].hasWsi /\ ~slide[s].hasCoords /\ slide[s].fault = NoFault) =>
            /\ nreads[s] = 0
            /\ tableMode = "created" => RowsOf(table, s) = << >>
            /\ Passed(s) => s \notin openWsi

C5_SkipStep ==
    (pc = "read_h5" /\ ~slide[wsi_id].hasCoords) =>
        /\ wsi_id \in openWsi
        /\ wsi_id \notin openWsi'
        /\ ~h5Open'
        /\ table' = table
        /\ nreads' = nreads
        /\ pc' = "loop"
        /\ i' = i + 1

C5_MissingCoordsSkipped == []C5_NoCoordsNoWork /\ [][C5_SkipStep]_vars

C5_Witness ==
    /\ RunEnded
    /\ Len(h5_files) = 2
    /\ LET s == WsiIdOf(h5_files[1])
           t == WsiIdOf(h5_files[2])
       IN  /\ slide[s].hasWsi
           /\ ~slide[s].hasCoords
           /\ slide[s].fault = NoFault
           /\ Healthy(t)
           /\ Len(RowsOf(table, t)) > 0

\* ------------------------------------------------------------------------
\* C6: two runs in sequence over the same inputs, each creating the table in
\* overwrite mode, leave the record count and the set of (slide id, patch
\* index) pairs of a single run.
\* ------------------------------------------------------------------------
TwoRuns(mode1, mode2) ==
    /\ RunEnded
    /\ second
    /\ firstMode = mode1
    /\ tableMode = mode2

C6_OverwriteIdempotent ==
    TwoRuns("created", "created") =>
        /\ Len(table) = Len(prevTable)
        /\ Keys(table) = Keys(prevTable)

C6_Witness ==
    /\ TwoRuns("created", "created")
    /\ Len(prevTable) > batch_size
    /\ Len(table) = Len(prevTable)

\* ------------------------------------------------------------------------
\* C7: when the second run opens the table the first run created, the append
\* neither replaces nor rejects rows: every slide has twice the rows of the
\* first run and each of its (slide id, patch index) pairs occurs twice.
\* ------------------------------------------------------------------------
C7_ReopenDoubles ==
    TwoRuns("created", "opened") =>
        \A s \in DOMAIN slide :
            LET p == IdxOf(prevTable, s)
                q == IdxOf(table, s)
            IN  /\ Len(q) = 2 * Len(p)
                /\ Cardinality(Range(p)) = Len(p)
                /\ \A j \in 1..Len(p) : q[j] = p[j] /\ q[Len(p) + j] = p[j]

C7_Witness ==
    /\ TwoRuns("created", "opened")
    /\ \E s \in DOMAIN slide :
           /\ Len(RowsOf(prevTable, s)) = MaxPatches
           /\ Len(RowsOf(table, s)) = 2 * MaxPatches

\* ------------------------------------------------------------------------
\* C8: a failure of create_table that is not a conflict with an existing table
\* is fatal: the existing table is not opened and no slide is processed.
\* ------------------------------------------------------------------------
C8_NonConflictStep == (pc = "fallback" /\ createErr = "other") => pc' = "aborted"

C8_NonConflictIsFatal == [][C8_NonConflictStep]_vars

\* ------------------------------------------------------------------------
\* C9: once the table is created or opened, no error of a slide leaves the
\* slide boundary: the run reaches its end with every coordinate file taken
\* by the loop exactly once, for every combination of per-slide failures.
\* ------------------------------------------------------------------------
Returned == pc \in {"done", "timed", "verify", "exited"}

C9_RunReachesEnd ==
    [](tableMode # "none" => <>(Returned /\ visited = h5_files))

C9_Witness ==
    /\ RunEnded
    /\ visited = h5_files
    /\ Len(h5_files) = 2
    /\ slide[WsiIdOf(h5_files[1])].fault = "add"
    /\ slide[WsiIdOf(h5_files[2])].fault = "h5py.File"

\* ------------------------------------------------------------------------
\* C10 as stated: a run aborts with an error only when the destination table
\* can be neither created nor opened.
\* ------------------------------------------------------------------------
StoreFailures == {"connect", "open_table"}

C10_OnlyStoreAborts == pc = "aborted" => raised \in StoreFailures

\* C10 as amended: a run aborts only before the loop over the slides, either
\* because the coordinate directory cannot be listed or holds no .h5 file, or
\* because the store cannot be initialised; once the loop has started every
\* failure costs at most the slide concerned.
C10_AbortsOnlyBeforeLoop ==
    /\ pc = "aborted" =>
           /\ raised \in StoreFailures \cup {"listdir", "ValueError"}
           /\ raised = "ValueError" => FilterH5(h5_dir) = << >>
           /\ tableMode = "none"
           /\ visited = << >>
    /\ raised \notin StoreFailures \cup {"listdir", "ValueError", "none"} =>
           /\ pc = "except"
           /\ raised = slide[wsi_id].fault

C10_Witness ==
    /\ pc = "aborted"
    /\ raised = "ValueError"
    /\ h5_dir # << >>
    /\ tableExists

\* ------------------------------------------------------------------------
\* The rows this run has appended: the table without the rows it held when
\* the run got its handle
\* ------------------------------------------------------------------------
BaseLen ==
    IF tableMode = "created" THEN 0
    ELSE IF second THEN Len(prevTable)
    ELSE Len(StaleRows)
RunRows == SubSeq(table, BaseLen + 1, Len(table))
Ascending(rows) == \A j \in 1..Len(rows) : rows[j].patch_idx = rows[1].patch_idx + j - 1

\* ------------------------------------------------------------------------
\* C11: within a slide the rows follow the coordinate order: every appended
\* batch holds consecutive ascending patch indices, it starts one after the
\* last index of the slide's previous batch, and so the slide's rows enter
\* the table in the order 0, 1, 2, ...
\* ------------------------------------------------------------------------
C11_RowsInIndexOrder ==
    tableMode # "none" =>
        \A s \in DOMAIN slide :
            LET idx == IdxOf(RunRows, s)
            IN  \A j \in 1..Len(idx) : idx[j] = j - 1

C11_AppendStep ==
    (pc = "add" /\ pc' = "window") =>
        /\ table' = table \o batch_data
        /\ batch_data # << >>
        /\ Ascending(batch_data)
        /\ batch_data[1].patch_idx = Len(RowsOf(RunRows, wsi_id))

C11_BatchesInOrder == []C11_RowsInIndexOrder /\ [][C11_AppendStep]_vars

C11_Witness ==
    /\ pc = "window"
    /\ tableMode = "opened"
    /\ batch_start = 2 * batch_size
    /\ Len(RowsOf(RunRows, wsi_id)) = MaxPatches
    /\ Len(batch_data) = MaxPatches - batch_size

\* ------------------------------------------------------------------------
\* C12: the ingestor holds at most one window of records (at most 1000, all
\* of the current slide); a batch is not kept once table.add has taken it,
\* and no record of one slide is held together with one of another slide.
\* ------------------------------------------------------------------------
OneSlideOnly(rows) == \A j \in 1..Len(rows) : rows[j].wsi_id = rows[1].wsi_id

C12_BatchDiscarded ==
    /\ Len(batch_data) <= batch_size
    /\ OneSlideOnly(batch_data)
    /\ (pc = "window" /\ batch_start > 0) => batch_data = << >>
    /\ (pc \in {"open_wsi", "open_h5", "read_h5"} /\ batch_data # << >>) =>
           batch_data[1].wsi_id = wsi_id

\* ------------------------------------------------------------------------
\* C13: the pyramid level and the patch size are fixed per slide: the level
\* is the 'patch_level' attribute of the slide's 'coords' dataset, 0 without
\* it, the size is its 'patch_size' attribute, 256 without it; every record
\* of the slide is extracted with them, and a slide without an attribute
\* gets the default, never the value of the slide before it.
\* ------------------------------------------------------------------------
ExpectedLevel(s) == IF slide[s].level = NoAttr THEN 0 ELSE slide[s].level
ExpectedSize(s) == IF slide[s].size = NoAttr THEN 256 ELSE slide[s].size
UniformMeta(rows) ==
    \A j \in 1..Len(rows) :
        /\ rows[j].image.of[3] = ExpectedLevel(rows[j].wsi_id)
        /\ rows[j].image.of[4] = ExpectedSize(rows[j].wsi_id)

C13_MetadataPerSlide ==
    /\ pc \in {"window", "add"} =>
           /\ patch_level = ExpectedLevel(wsi_id)
           /\ patch_size = ExpectedSize(wsi_id)
    /\ pc = "add" => UniformMeta(batch_data)
    /\ tableMode # "none" => UniformMeta(RunRows)

C13_Witness ==
    /\ RunEnded
    /\ Len(h5_files) = 2
    /\ LET s == WsiIdOf(h5_files[1])
           t == WsiIdOf(h5_files[2])
       IN  /\ slide[s].level = 1
           /\ slide[t].level = NoAttr
           /\ slide[s].size = NoAttr
           /\ Len(RowsOf(RunRows, s)) = SmallPatches
           /\ Len(RowsOf(RunRows, t)) > batch_size
           /\ RowsOf(RunRows, t)[1].image.of[3] = 0

\* ------------------------------------------------------------------------
\* C14: the record with patch index i of a slide carries the x and y of the
\* i-th pair of the slide's 'coords' dataset, the identifier of that slide,
\* and the JPEG encoding of the region read from that slide at that (x, y);
\* the index is the position in the whole dataset, not the one in the batch.
\* ------------------------------------------------------------------------
PairedWithCoord(r, s, idx) ==
    /\ r.wsi_id = s
    /\ r.patch_idx = idx
    /\ <<r.coord_x, r.coord_y>> = CoordOf(s, idx)
    /\ r.image.format = "JPEG"
    /\ r.image.of[1] = s
    /\ r.image.of[2] = CoordOf(s, idx)

C14_RecordMatchesCoordinate ==
    /\ tableMode # "none" =>
           \A s \in DOMAIN slide :
               LET own == RowsOf(RunRows, s)
               IN  \A j \in 1..Len(own) : PairedWithCoord(own[j], s, j - 1)
    /\ pc = "add" =>
           \A j \in 1..Len(batch_data) :
               PairedWithCoord(batch_data[j], wsi_id, batch_start + j - 1)

C14_Witness ==
    /\ RunEnded
    /\ \E s \in DOMAIN slide :
           LET own == RowsOf(RunRows, s)
           IN  /\ Len(own) = MaxPatches
               /\ own[batch_size + 1].patch_idx = batch_size
               /\ own[batch_size + 1].coord_y = (batch_size \div GridWidth) * 256
               /\ own[batch_size + 1].coord_y # own[1].coord_y

\* ------------------------------------------------------------------------
\* C15: when distinct coordinate files yield distinct slide identifiers, in
\* every state of a run that created the table no two rows of the table have
\* the same (slide identifier, patch index) pair; a patch index may occur
\* under several slide identifiers.
\* ------------------------------------------------------------------------
DistinctIds(files) ==
    \A j, k \in 1..Len(files) : WsiIdOf(files[j]) = WsiIdOf(files[k]) => j = k

C15_NaturalKeyUnique ==
    (tableMode = "created" /\ DistinctIds(h5_files)) =>
        Cardinality(Keys(table)) = Len(table)

C15_Witness ==
    /\ tableMode = "created"
    /\ Len(h5_files) = 2
    /\ DistinctIds(h5_files)
    /\ Len(table) > batch_size
    /\ LET p == RowsOf(table, WsiIdOf(h5_files[1]))
           q == RowsOf(table, WsiIdOf(h5_files[2]))
       IN  /\ p # << >>
           /\ q # << >>
           /\ p[1].patch_idx = q[1].patch_idx

\* ------------------------------------------------------------------------
\* C16: when the loop is over the run reports the number of slides fully
\* processed and the number of slides skipped; each coordinate file is in
\* exactly one of the two, so they sum to the number of coordinate files, and
\* a slide is fully processed only when all its coordinates were ingested.
\* ------------------------------------------------------------------------
FullyProcessed ==
    {k \in 1..Len(h5_files) :
        /\ Healthy(WsiIdOf(h5_files[k]))
        /\ Len(RowsOf(RunRows, WsiIdOf(h5_files[k]))) = slide[WsiIdOf(h5_files[k])].num}

C16_CountsReported ==
    pc \in {"done", "exited"} =>
        \E k \in 1..Len(stdout) :
            /\ stdout[k].kind = "summary"
            /\ stdout[k].arg = <<Cardinality(FullyProcessed),
                                 Len(h5_files) - Cardinality(FullyProcessed)>>

\* ------------------------------------------------------------------------
\* C17: a slide goes DISCOVERED, OPENED, STREAMING, CLOSED, or leaves that
\* line by a skip; its handle is open before its coordinate set is read; a
\* region is read and a batch appended for it only while its handle is open
\* and its 'coords' dataset was found; nothing of a slide is read or appended
\* once it is closed or skipped or the next slide has begun.
\* ------------------------------------------------------------------------
Phase ==
    CASE pc \in {"loop", "open_wsi"} -> "DISCOVERED"
      [] pc \in {"open_h5", "read_h5"} -> "OPENED"
      [] pc \in {"window", "add"} -> "STREAMING"
      [] pc = "except" -> "SKIPPED"
      [] OTHER -> "NONE"

OnSlide == Phase # "NONE" /\ i <= Len(h5_files)

C17_OpenWhileStreaming ==
    /\ (OnSlide /\ Phase \in {"OPENED", "STREAMING"}) => wsi_id \in openWsi
    /\ (OnSlide /\ Phase = "STREAMING") => (slide[wsi_id].hasCoords /\ h5Open)
    /\ \A s \in DOMAIN slide :
           (nreads[s] > 0 \/ nadds[s] > 0) =>
               /\ slide[s].hasWsi
               /\ slide[s].hasCoords
               /\ OnSlide => (Passed(s) \/ s = wsi_id)

C17_SlideStep ==
    OnSlide =>
        /\ i' \in {i, i + 1}
        /\ h5_files' = h5_files
        /\ i' = i =>
               <<Phase, Phase'>> \in
                   {<<"DISCOVERED", "DISCOVERED">>, <<"DISCOVERED", "OPENED">>,
                    <<"OPENED", "OPENED">>, <<"OPENED", "STREAMING">>,
                    <<"STREAMING", "STREAMING">>, <<"DISCOVERED", "SKIPPED">>,
                    <<"OPENED", "SKIPPED">>, <<"STREAMING", "SKIPPED">>}
        /\ i' = i + 1 =>
               /\ pc' = "loop"
               /\ Phase = "STREAMING" =>
                      (batch_start >= num_patches /\ wsi_id \notin openWsi')
               /\ Phase = "OPENED" => (~slide[wsi_id].hasCoords /\ wsi_id \notin openWsi')
               /\ Phase = "DISCOVERED" => ~slide[wsi_id].hasWsi
        /\ nreads' # nreads =>
               /\ pc = "window"
               /\ wsi_id \in openWsi
               /\ \A s \in DOMAIN slide : s # wsi_id => nreads'[s] = nreads[s]
        /\ (table' # table \/ nadds' # nadds) =>
               /\ pc = "add"
               /\ wsi_id \in openWsi
               /\ table' \in {table, table \o batch_data}
               /\ \A s \in DOMAIN slide : s # wsi_id => nadds'[s] = nadds[s]

C17_Lifecycle == []C17_OpenWhileStreaming /\ [][C17_SlideStep]_vars

C17_Witness ==
    /\ pc = "window"
    /\ i = 2
    /\ i <= Len(h5_files)
    /\ batch_start >= num_patches
    /\ nadds[wsi_id] > 0
    /\ wsi_id \in openWsi
    /\ \E s \in DOMAIN slide :
           /\ Passed(s)
           /\ slide[s].fault = "read_region"
           /\ nadds[s] > 0

\* ------------------------------------------------------------------------
\* C18: when read_region or save raises at the coordinate with index k of a
\* slide, the run has added for that slide exactly the records with indices
\* 0 .. 1000 * floor(k / 1000) - 1; the records built for the failing window
\* are not appended, and a failure in the first window leaves no record.
\* ------------------------------------------------------------------------
FailedAt(s) ==
    /\ ExtractFault(s)
    /\ \/ Passed(s)
       \/ OnSlide /\ pc = "except" /\ s = wsi_id

C18_PartialExtent ==
    tableMode # "none" =>
        \A s \in DOMAIN slide :
            FailedAt(s) =>
                LET k == slide[s].at
                    idx == IdxOf(RunRows, s)
                IN  /\ Len(idx) = 1000 * (k \div 1000)
                    /\ \A j \in 1..Len(idx) : idx[j] = j - 1
                    /\ k < 1000 => RowsOf(RunRows, s) = << >>

C18_FailStep ==
    (pc = "window" /\ pc' = "except") =>
        /\ table' = table
        /\ Len(batch_data') = slide[wsi_id].at - 1000 * (slide[wsi_id].at \div 1000)

C18_PartialIngestion == []C18_PartialExtent /\ [][C18_FailStep]_vars

C18_Witness ==
    /\ RunEnded
    /\ \E s, t \in DOMAIN slide :
           /\ FailedAt(s)
           /\ slide[s].at = batch_size
           /\ Len(RowsOf(RunRows, s)) = batch_size
           /\ FailedAt(t)
           /\ slide[t].at = SmallPatches - 1
           /\ RowsOf(RunRows, t) = << >>
           /\ nreads[t] = SmallPatches

\* ------------------------------------------------------------------------
\* C19: a slide with N coordinates and no error gets ceil(N / 1000) calls of
\* table.add; no batch is empty, every batch but the last has 1000 records,
\* the last has N - 1000 * (ceil(N / 1000) - 1); with N = 0 table.add is not
\* called and the slide is closed the normal way.
\* ------------------------------------------------------------------------
CeilDiv(n, b) == (n + b - 1) \div b

C19_AppendCount ==
    \A s \in DOMAIN slide :
        (Healthy(s) /\ Passed(s)) =>
            /\ nadds[s] = CeilDiv(slide[s].num, 1000)
            /\ s \notin openWsi
            /\ slide[s].num = 0 => nadds[s] = 0

C19_ShapeStep ==
    /\ (pc = "add" /\ pc' = "window" /\ Healthy(wsi_id)) =>
           LET N == slide[wsi_id].num
               last == CeilDiv(N, 1000)
           IN  /\ nadds'[wsi_id] = nadds[wsi_id] + 1
               /\ nadds'[wsi_id] <= last
               /\ batch_data # << >>
               /\ nadds'[wsi_id] < last => Len(batch_data) = 1000
               /\ nadds'[wsi_id] = last => Len(batch_data) = N - 1000 * (last - 1)
               /\ Len(table') = Len(table) + Len(batch_data)
    /\ (pc = "window" /\ Healthy(wsi_id) /\ slide[wsi_id].num = 0) =>
           /\ pc' = "loop"
           /\ i' = i + 1
           /\ wsi_id \notin openWsi'
           /\ table' = table
           /\ stdout' = stdout

C19_BatchShape == []C19_AppendCount /\ [][C19_ShapeStep]_vars

C19_Witness ==
    /\ RunEnded
    /\ \E s, t \in DOMAIN slide :
           /\ Healthy(s)
           /\ slide[s].num = MaxPatches
           /\ nadds[s] = 2
           /\ Len(RowsOf(RunRows, s)) = MaxPatches
           /\ Healthy(t)
           /\ slide[t].num = SmallPatches
           /\ nadds[t] = 1

\* ------------------------------------------------------------------------
\* C20 as stated: the table is created or opened once per run, before any
\* slide; a run in which every slide is skipped leaves an empty table in
\* place of any prior table, and a run that finds no coordinate file leaves
\* the prior table as it was.
\* ------------------------------------------------------------------------
PriorTable ==
    IF second THEN prevTable
    ELSE IF tableExists THEN StaleRows
    ELSE << >>

EverySlideSkipped ==
    \A k \in 1..Len(h5_files) : ~Healthy(WsiIdOf(h5_files[k]))

C20_SkippedRunEmptiesTable ==
    /\ (RunEnded /\ EverySlideSkipped) => table = << >>
    /\ (pc = "aborted" /\ raised = "ValueError") => table = PriorTable
    /\ tableMode # "none" => h5_files # << >>

\* C20 as amended: the table is created or, on fallback, opened exactly once
\* per run, after the listing gave at least one coordinate file and before
\* any slide is opened or any batch appended; in the loop the table only
\* gets batches appended; a run that created the table and handed no batch
\* to table.add ends with an empty table in place of any prior one, a run
\* that opened the table keeps the prior rows in front of its own, and a run
\* without coordinate file fails with the store untouched.
C20_TableState ==
    /\ tableMode # "none" => h5_files # << >>
    /\ tableMode = "none" =>
           /\ table = PriorTable
           /\ openWsi = {}
           /\ visited = << >>
           /\ \A s \in DOMAIN slide : nadds[s] = 0 /\ nreads[s] = 0
    /\ (RunEnded /\ tableMode = "created" /\ \A s \in DOMAIN slide : nadds[s] = 0) =>
           table = << >>
    /\ tableMode = "opened" =>
           /\ Len(table) >= Len(PriorTable)
           /\ SubSeq(table, 1, Len(PriorTable)) = PriorTable
    /\ (pc = "aborted" /\ raised = "ValueError") =>
           /\ tableMode = "none"
           /\ h5_files = << >>
           /\ table = PriorTable

C20_TableStep ==
    /\ (tableMode' # tableMode /\ pc' # "main") =>
           /\ tableMode = "none"
           /\ pc \in {"create", "fallback"}
           /\ pc' = "loop"
           /\ h5_files # << >>
           /\ i = 1
           /\ table' \in {<< >>, table}
    /\ (tableMode # "none" /\ pc' # "main") =>
           /\ tableMode' = tableMode
           /\ table' \in {table, table \o batch_data}
           /\ tableExists' = tableExists

C20_TableOncePerRun == []C20_TableState /\ [][C20_TableStep]_vars

C20_Witness ==
    /\ TwoRuns("opened", "created")
    /\ prevTable # << >>
    /\ h5_files # << >>
    /\ EverySlideSkipped
    /\ table = << >>

====
